---- MODULE Spec2Model ----
(***************************************************************************)
(* Model of the quizanalyze survey reader (src/src/csv.rs, src/src/lib.rs).*)
(*                                                                         *)
(* Text is a sequence of one-character strings.  Rust indices are 0-based; *)
(* the sequences here are 1-based, so Rust's labels[i] is labels[i + 1].   *)
(*                                                                         *)
(* Three specifications share the variables:                               *)
(*   Spec      Answers::parse on a file, then question / question_exact    *)
(*   LineSpec  parser::parse_line, one character of the line per step      *)
(*   MapSpec   Config::parse_mappings on a mapping string                  *)
(***************************************************************************)
EXTENDS Integers, Sequences, FiniteSets

VARIABLES
    pc,        \* position of the running operation
    file,      \* Answers::parse: the file text
    lines,     \* parser::parse: the lines split_lines returned
    cursor,    \* parser::parse: the line the iterator yields next
    labels,    \* parser::parse: labels
    replies,   \* parser::parse: replies
    result,    \* what Answers::parse came to
    query,     \* the last question / question_exact call
    out,       \* and what it returned
    input,     \* parse_line: the line text
    pos,       \* parse_line: the character the loop reads next
    state,     \* parse_line: the State
    line,      \* parse_line: the Reply built so far
    mapping,   \* parse_mappings: the mapping string
    mresult    \* parse_mappings: what it returned

vars == <<pc, file, lines, cursor, labels, replies, result, query, out,
          input, pos, state, line, mapping, mresult>>

fileVars == <<file, lines, cursor, labels, replies, result, query, out>>
lineVars == <<input, pos, state, line>>
mapVars == <<mapping, mresult>>

(***************************************************************************)
(* Bounds and alphabets                                                    *)
(***************************************************************************)
MaxTokens == 5
MaxLineLen == 5

QUOTE == "\""
COMMA == ","
SEMI == ";"
NL == "\n"

\* the characters a line is drawn from: the four the code looks at and one other
Chars == {QUOTE, COMMA, SEMI, NL, "a"}

\* the pieces a file is drawn from: two quoted cells, and the four characters
Tokens == {<<QUOTE, "a", QUOTE>>, <<QUOTE, "b", QUOTE>>,
           <<QUOTE>>, <<COMMA>>, <<SEMI>>, <<NL>>}

RECURSIVE StringsUpTo(_, _)
StringsUpTo(alphabet, n) ==
    IF n = 0 THEN {<<>>}
    ELSE LET shorter == StringsUpTo(alphabet, n - 1)
         IN shorter \cup {Append(s, c) : s \in shorter, c \in alphabet}

RECURSIVE TokenStringsUpTo(_, _)
TokenStringsUpTo(tokens, n) ==
    IF n = 0 THEN {<<>>}
    ELSE LET shorter == TokenStringsUpTo(tokens, n - 1)
         IN shorter \cup {s \o t : s \in shorter, t \in tokens}

Inputs == StringsUpTo(Chars, MaxLineLen)
Files == TokenStringsUpTo(Tokens, MaxTokens)

None == [some |-> FALSE]
Some(v) == [some |-> TRUE, val |-> v]

(***************************************************************************)
(* parser::State                                                           *)
(***************************************************************************)
State_new ==
    [options |-> <<>>, option |-> <<>>,
     special |-> FALSE, text |-> FALSE, next |-> FALSE, over |-> FALSE]

\* State_update with a quote that follows a quote or a ';' taken as escaped
State_update_escaped_quote(s, c) ==
    LET s0 == [s EXCEPT !.next = FALSE, !.over = FALSE, !.special = FALSE]
    IN CASE c = QUOTE -> IF s.special THEN [s0 EXCEPT !.special = TRUE]
                         ELSE [s0 EXCEPT !.text = ~s0.text, !.special = TRUE]
         [] c = COMMA -> IF ~s0.text THEN [s0 EXCEPT !.over = TRUE] ELSE s0
         [] c = SEMI -> [s0 EXCEPT !.next = TRUE, !.special = TRUE]
         [] OTHER -> s0

\* State_update with a ',' taken as a field boundary inside quoted text too
State_update_comma_anywhere(s, c) ==
    LET s0 == [s EXCEPT !.next = FALSE, !.over = FALSE, !.special = FALSE]
    IN CASE c = QUOTE -> [s0 EXCEPT !.text = ~s0.text, !.special = TRUE]
         [] c = COMMA -> [s0 EXCEPT !.over = TRUE]
         [] c = SEMI -> [s0 EXCEPT !.next = TRUE, !.special = TRUE]
         [] OTHER -> s0

\* State_update with a ';' inside quoted text taken as content
State_update_semi_outside(s, c) ==
    LET s0 == [s EXCEPT !.next = FALSE, !.over = FALSE, !.special = FALSE]
    IN CASE c = QUOTE -> [s0 EXCEPT !.text = ~s0.text, !.special = TRUE]
         [] c = COMMA -> IF ~s0.text THEN [s0 EXCEPT !.over = TRUE] ELSE s0
         [] c = SEMI -> IF ~s0.text
                        THEN [s0 EXCEPT !.next = TRUE, !.special = TRUE]
                        ELSE s0
         [] OTHER -> s0

State_update(s, c) ==
    LET s0 == [s EXCEPT !.next = FALSE, !.over = FALSE, !.special = FALSE]
    IN CASE c = QUOTE -> [s0 EXCEPT !.text = ~s0.text, !.special = TRUE]
         [] c = COMMA -> IF ~s0.text THEN [s0 EXCEPT !.over = TRUE] ELSE s0
         [] c = SEMI -> [s0 EXCEPT !.next = TRUE, !.special = TRUE]
         [] OTHER -> s0

\* State_parse with the special flag ignored when a character is kept
State_parse_keep_special(s, c) ==
    LET s1 == IF s.text
              THEN [s EXCEPT !.option = Append(s.option, c)]
              ELSE s
        s2 == IF s1.next \/ s1.over
              THEN [s1 EXCEPT !.options = Append(s1.options, s1.option),
                              !.option = <<>>]
              ELSE s1
    IN IF s2.over
       THEN [state |-> [s2 EXCEPT !.options = <<>>], ret |-> Some(s2.options)]
       ELSE [state |-> s2, ret |-> None]

\* returns the State left behind and the Option<Vec<String>> returned
State_parse(s, c) ==
    LET s1 == IF s.text /\ ~s.special
              THEN [s EXCEPT !.option = Append(s.option, c)]
              ELSE s
        s2 == IF s1.next \/ s1.over
              THEN [s1 EXCEPT !.options = Append(s1.options, s1.option),
                              !.option = <<>>]
              ELSE s1
    IN IF s2.over
       THEN [state |-> [s2 EXCEPT !.options = <<>>], ret |-> Some(s2.options)]
       ELSE [state |-> s2, ret |-> None]

(***************************************************************************)
(* parser::parse_line                                                      *)
(***************************************************************************)
\* one iteration of the loop over input.chars()
line_step(st, ln, c) ==
    LET p == State_parse(State_update(st, c), c)
    IN [state |-> p.state,
        line |-> IF p.ret.some THEN Append(ln, p.ret.val) ELSE ln]

\* the synthesized trailing comma and the expect on what parse returns for it
line_finish(st, ln) ==
    LET p == State_parse(State_update(st, COMMA), COMMA)
    IN IF p.ret.some
       THEN [kind |-> "ok", state |-> p.state, line |-> Append(ln, p.ret.val)]
       ELSE [kind |-> "panic", state |-> p.state, line |-> ln,
             msg |-> "always returns string after comma"]

RECURSIVE line_loop(_, _, _, _)
line_loop(st, ln, text, i) ==
    IF i > Len(text) THEN line_finish(st, ln)
    ELSE LET n == line_step(st, ln, text[i])
         IN line_loop(n.state, n.line, text, i + 1)

parse_line(text) == line_loop(State_new, <<>>, text, 1)

(***************************************************************************)
(* parser::split_lines                                                     *)
(***************************************************************************)
\* file[a..b) of Rust, on 0-based offsets
Slice(s, a, b) == SubSeq(s, a + 1, b)

RECURSIVE split_loop(_, _, _, _, _)
split_loop(f, index, text, last_pushed, acc) ==
    IF index >= Len(f) THEN Append(acc, Slice(f, last_pushed, Len(f)))
    ELSE LET c == f[index + 1]
         IN CASE c = QUOTE -> split_loop(f, index + 1, ~text, last_pushed, acc)
              [] c = NL ->
                  IF ~text
                  THEN split_loop(f, index + 1, text, index,
                                  Append(acc, Slice(f, last_pushed, index)))
                  ELSE split_loop(f, index + 1, text, last_pushed, acc)
              [] OTHER -> split_loop(f, index + 1, text, last_pushed, acc)

\* split_lines with the next line started after the newline, not at it
RECURSIVE split_loop_after_newline(_, _, _, _, _)
split_loop_after_newline(f, index, text, last_pushed, acc) ==
    IF index >= Len(f) THEN Append(acc, Slice(f, last_pushed, Len(f)))
    ELSE LET c == f[index + 1]
         IN CASE c = QUOTE ->
                  split_loop_after_newline(f, index + 1, ~text, last_pushed, acc)
              [] c = NL ->
                  IF ~text
                  THEN split_loop_after_newline(f, index + 1, text, index + 1,
                           Append(acc, Slice(f, last_pushed, index)))
                  ELSE split_loop_after_newline(f, index + 1, text, last_pushed, acc)
              [] OTHER ->
                  split_loop_after_newline(f, index + 1, text, last_pushed, acc)

split_lines_after_newline(f) == split_loop_after_newline(f, 0, FALSE, 0, <<>>)

\* split_lines with every newline taken as a line end, quoted or not
RECURSIVE split_loop_every_newline(_, _, _, _)
split_loop_every_newline(f, index, last_pushed, acc) ==
    IF index >= Len(f) THEN Append(acc, Slice(f, last_pushed, Len(f)))
    ELSE IF f[index + 1] = NL
         THEN split_loop_every_newline(f, index + 1, index,
                  Append(acc, Slice(f, last_pushed, index)))
         ELSE split_loop_every_newline(f, index + 1, last_pushed, acc)

split_lines_every_newline(f) == split_loop_every_newline(f, 0, 0, <<>>)

split_lines(f) == split_loop(f, 0, FALSE, 0, <<>>)

(***************************************************************************)
(* Answers: label, collect, question, question_exact                       *)
(***************************************************************************)
Panic(msg) == [some |-> FALSE, panic |-> msg]

\* str::contains
contains(s, sub) ==
    \E k \in 0 .. (Len(s) - Len(sub)) : SubSeq(s, k + 1, k + Len(sub)) = sub

\* the closure handed to label: label.contains(name), or label == name
cmp(lbl, exact, name) == IF exact THEN lbl = name ELSE contains(lbl, name)

RECURSIVE label_loop(_, _, _, _)
label_loop(ls, index, exact, name) ==
    IF index >= Len(ls) THEN None
    ELSE IF cmp(ls[index + 1], exact, name) THEN Some(index)
    ELSE label_loop(ls, index + 1, exact, name)

\* label with the scan started at the second label
label_from_second(a, exact, name) == label_loop(a.labels, 1, exact, name)

\* Option<usize>, the index 0-based
label(a, exact, name) == label_loop(a.labels, 0, exact, name)

RECURSIVE collect_loop(_, _, _, _)
collect_loop(rs, r, index, acc) ==
    IF r > Len(rs) THEN Some(acc)
    ELSE IF index >= Len(rs[r]) THEN Panic("index out of bounds")
    ELSE collect_loop(rs, r + 1, index, acc \o rs[r][index + 1])

\* collect with only the first choice of each reply taken
RECURSIVE collect_first_loop(_, _, _, _)
collect_first_loop(rs, r, index, acc) ==
    IF r > Len(rs) THEN Some(acc)
    ELSE IF index >= Len(rs[r]) THEN Panic("index out of bounds")
    ELSE collect_first_loop(rs, r + 1, index,
                            acc \o SubSeq(rs[r][index + 1], 1, 1))

collect_first_choice(a, index) ==
    collect_first_loop(a.replies, 1, index, <<a.labels[index + 1]>>)

collect(a, index) == collect_loop(a.replies, 1, index, <<a.labels[index + 1]>>)

question(a, name) ==
    LET index == label(a, FALSE, name)
    IN IF index.some THEN collect(a, index.val) ELSE None

question_exact(a, name) ==
    LET index == label(a, TRUE, name)
    IN IF index.some THEN collect(a, index.val) ELSE None

(***************************************************************************)
(* Answers::parse, with parser::parse inlined where it is called           *)
(***************************************************************************)
Pending == [kind |-> "pending"]
Ok(ls, rs) == [kind |-> "Ok", labels |-> ls, replies |-> rs]
Err(msg) == [kind |-> "Err", msg |-> msg]
Aborted(msg) == [kind |-> "panic", msg |-> msg]

\* Iterator::flatten over a Vec<Vec<String>>
RECURSIVE flatten(_)
flatten(rec) == IF rec = <<>> THEN <<>> ELSE Head(rec) \o flatten(Tail(rec))

RECURSIVE check_loop(_, _, _)
check_loop(ls, rs, r) ==
    IF r > Len(rs) THEN Ok(ls, rs)
    ELSE IF Len(rs[r]) # Len(ls)
         THEN Err("replies are not the same size as labels")
         ELSE check_loop(ls, rs, r + 1)

\* check_replies with only a reply longer than the labels refused
RECURSIVE check_loop_longer(_, _, _)
check_loop_longer(ls, rs, r) ==
    IF r > Len(rs) THEN Ok(ls, rs)
    ELSE IF Len(rs[r]) > Len(ls)
         THEN Err("replies are not the same size as labels")
         ELSE check_loop_longer(ls, rs, r + 1)

check_replies_longer_only(ls, rs) == check_loop_longer(ls, rs, 1)

\* check_replies with the loop left out
check_replies_unchecked(ls, rs) == Ok(ls, rs)

\* the loop of Answers::parse over answers.replies
check_replies(ls, rs) == check_loop(ls, rs, 1)

idleLine == input = <<>> /\ pos = 0 /\ state = State_new /\ line = <<>>
idleMap == mapping = <<>> /\ mresult = Pending
idleFile ==
    /\ file = <<>> /\ lines = <<>> /\ cursor = 0 /\ labels = <<>>
    /\ replies = <<>> /\ result = Pending /\ query = None /\ out = None

Init ==
    /\ pc = "parse"
    /\ file \in Files
    /\ lines = <<>> /\ cursor = 0 /\ labels = <<>> /\ replies = <<>>
    /\ result = Pending /\ query = None /\ out = None
    /\ idleLine /\ idleMap

\* parser::parse: let lines = split_lines(&file); let mut lines = lines.iter();
SplitLines ==
    /\ pc = "parse"
    /\ lines' = split_lines(file)
    /\ cursor' = 1
    /\ pc' = "header"
    /\ UNCHANGED <<file, labels, replies, result, query, out, lineVars, mapVars>>

\* parser::parse: the labels, from the first line
ParseHeader ==
    /\ pc = "header"
    /\ IF cursor > Len(lines)
       THEN /\ result' = Err("first line missing")
            /\ pc' = "done"
            /\ UNCHANGED <<labels, cursor>>
       ELSE LET r == parse_line(lines[cursor])
            IN IF r.kind = "panic"
               THEN /\ result' = Aborted(r.msg)
                    /\ pc' = "panicked"
                    /\ UNCHANGED <<labels, cursor>>
               ELSE /\ labels' = flatten(r.line)
                    /\ cursor' = cursor + 1
                    /\ pc' = "replies"
                    /\ UNCHANGED result
    /\ UNCHANGED <<file, lines, replies, query, out, lineVars, mapVars>>

\* ParseReply with the new reply put in front of the earlier ones
ParseReply_in_front ==
    /\ pc = "replies"
    /\ cursor <= Len(lines)
    /\ LET r == parse_line(lines[cursor])
       IN IF r.kind = "panic"
          THEN /\ result' = Aborted(r.msg)
               /\ pc' = "panicked"
               /\ UNCHANGED <<replies, cursor>>
          ELSE /\ replies' = <<r.line>> \o replies
               /\ cursor' = cursor + 1
               /\ UNCHANGED <<result, pc>>
    /\ UNCHANGED <<file, lines, labels, query, out, lineVars, mapVars>>

\* parser::parse: one iteration of the loop over the remaining lines
ParseReply ==
    /\ pc = "replies"
    /\ cursor <= Len(lines)
    /\ LET r == parse_line(lines[cursor])
       IN IF r.kind = "panic"
          THEN /\ result' = Aborted(r.msg)
               /\ pc' = "panicked"
               /\ UNCHANGED <<replies, cursor>>
          ELSE /\ replies' = Append(replies, r.line)
               /\ cursor' = cursor + 1
               /\ UNCHANGED <<result, pc>>
    /\ UNCHANGED <<file, lines, labels, query, out, lineVars, mapVars>>

\* parser::parse returns Ok(Answers{labels, replies}); Answers::parse checks it
CheckReplies ==
    /\ pc = "replies"
    /\ cursor > Len(lines)
    /\ result' = check_replies(labels, replies)
    /\ pc' = IF result'.kind = "Ok" THEN "ready" ELSE "done"
    /\ UNCHANGED <<file, lines, cursor, labels, replies, query, out,
                   lineVars, mapVars>>

\* the search strings question and question_exact are called with
Names == {<<>>, <<"a">>, <<"b">>, <<COMMA>>, <<"a", "b">>}

Question(name) ==
    /\ pc = "ready"
    /\ query' = Some([exact |-> FALSE, name |-> name])
    /\ out' = question(result, name)
    /\ UNCHANGED <<pc, file, lines, cursor, labels, replies, result,
                   lineVars, mapVars>>

QuestionExact(name) ==
    /\ pc = "ready"
    /\ query' = Some([exact |-> TRUE, name |-> name])
    /\ out' = question_exact(result, name)
    /\ UNCHANGED <<pc, file, lines, cursor, labels, replies, result,
                   lineVars, mapVars>>

Next ==
    \/ SplitLines
    \/ ParseHeader
    \/ ParseReply
    \/ CheckReplies
    \/ \E name \in Names : Question(name)
    \/ \E name \in Names : QuestionExact(name)

Spec == Init /\ [][Next]_vars

(***************************************************************************)
(* parse_line, one character per step                                      *)
(***************************************************************************)
LineInit ==
    /\ pc = "scan"
    /\ input \in Inputs
    /\ pos = 1
    /\ state = State_new
    /\ line = <<>>
    /\ idleFile /\ idleMap

\* for c in input.chars() { state.update(c); if let Some(text) = state.parse(c) .. }
ScanChar ==
    /\ pc = "scan"
    /\ pos <= Len(input)
    /\ LET n == line_step(state, line, input[pos])
       IN /\ state' = n.state
          /\ line' = n.line
    /\ pos' = pos + 1
    /\ UNCHANGED <<pc, input, fileVars, mapVars>>

\* state.update(','); line.push(state.parse(',').expect(..)); line
FinalComma ==
    /\ pc = "scan"
    /\ pos > Len(input)
    /\ LET f == line_finish(state, line)
       IN /\ state' = f.state
          /\ line' = f.line
          /\ pc' = IF f.kind = "ok" THEN "returned" ELSE "panicked"
    /\ UNCHANGED <<input, pos, fileVars, mapVars>>

LineNext == ScanChar \/ FinalComma

LineSpec == LineInit /\ [][LineNext]_vars

(***************************************************************************)
(* Config::parse_mappings                                                  *)
(***************************************************************************)
MaxMapTokens == 5

I32_MAX == 2147483647
I32_MIN == (-I32_MAX) - 1

\* the pieces a mapping string is drawn from; 214748364 followed by 7 is
\* i32::MAX, by 8 it is one more; preceded by '-' and followed by 8 it is
\* i32::MIN, by 9 it is one less
MapTokens == {<<"t">>, <<"t", "7">>, <<"7">>, <<"8">>, <<"9">>, <<"-">>, <<"+">>,
              <<"2", "1", "4", "7", "4", "8", "3", "6", "4">>}

Mappings == TokenStringsUpTo(MapTokens, MaxMapTokens)

Digits == {"0", "1", "2", "3", "4", "5", "6", "7", "8", "9"}

\* char::to_digit(10)
to_digit(c) ==
    CASE c = "0" -> 0 [] c = "1" -> 1 [] c = "2" -> 2 [] c = "3" -> 3
      [] c = "4" -> 4 [] c = "5" -> 5 [] c = "6" -> 6 [] c = "7" -> 7
      [] c = "8" -> 8 [] c = "9" -> 9

\* the digit loop of i32::from_str: checked_mul(10), then checked_add or
\* checked_sub of the digit; an invalid digit is reported before the overflow
RECURSIVE digits_loop(_, _, _, _)
digits_loop(ds, i, is_positive, acc) ==
    IF i > Len(ds) THEN [kind |-> "Ok", val |-> acc]
    ELSE IF ds[i] \notin Digits THEN Err("invalid digit found in string")
    ELSE LET x == to_digit(ds[i])
         IN IF is_positive
            THEN IF acc > I32_MAX \div 10 \/ acc * 10 > I32_MAX - x
                 THEN Err("number too large to fit in target type")
                 ELSE digits_loop(ds, i + 1, is_positive, acc * 10 + x)
            ELSE IF acc < -(I32_MAX \div 10) \/ acc * 10 < I32_MIN + x
                 THEN Err("number too small to fit in target type")
                 ELSE digits_loop(ds, i + 1, is_positive, acc * 10 - x)

\* str::parse::<i32>
parse_i32(src) ==
    IF src = <<>> THEN Err("cannot parse integer from empty string")
    ELSE IF src \in {<<"+">>, <<"-">>} THEN Err("invalid digit found in string")
    ELSE IF src[1] = "+" THEN digits_loop(Tail(src), 1, TRUE, 0)
    ELSE IF src[1] = "-" THEN digits_loop(Tail(src), 1, FALSE, 0)
    ELSE digits_loop(src, 1, TRUE, 0)

\* str::split(char): the pieces between the separators, empty ones included
RECURSIVE str_split_loop(_, _, _, _, _)
str_split_loop(s, sep, i, piece, acc) ==
    IF i > Len(s) THEN Append(acc, piece)
    ELSE IF s[i] = sep THEN str_split_loop(s, sep, i + 1, <<>>, Append(acc, piece))
    ELSE str_split_loop(s, sep, i + 1, Append(piece, s[i]), acc)

str_split(s, sep) == str_split_loop(s, sep, 1, <<>>, <<>>)

\* HashMap::insert on a map kept as a set of <<key, value>>
insert(map, key, value) == {e \in map : e[1] # key} \cup {<<key, value>>}

\* while let Some(key) = pairs.next() { mappings.insert(key, pairs.next()..) }
RECURSIVE pairs_loop(_, _, _)
pairs_loop(pairs, i, map) ==
    IF i > Len(pairs) THEN [kind |-> "Ok", map |-> map]
    ELSE LET key == pairs[i]
         IN IF i + 1 > Len(pairs)
            THEN Err(<<key, "has no matching value">>)
            ELSE LET value == parse_i32(pairs[i + 1])
                 IN IF value.kind = "Err" THEN value
                    ELSE pairs_loop(pairs, i + 2, insert(map, key, value.val))

\* parse_mappings without the skip(1) of the piece before the first separator
parse_mappings_no_skip(m) ==
    IF m = <<>> THEN Err("no splitter")
    ELSE LET splitter == m[1]
             pairs == str_split(m, splitter)
         IN pairs_loop(pairs, 1, {})

parse_mappings(m) ==
    IF m = <<>> THEN Err("no splitter")
    ELSE LET splitter == m[1]
             pairs == Tail(str_split(m, splitter))
         IN pairs_loop(pairs, 1, {})

MapInit ==
    /\ pc = "mappings"
    /\ mapping \in Mappings
    /\ mresult = Pending
    /\ idleFile /\ idleLine

\* Config::build, "-m": mappings = Self::parse_mappings(&mapping)?
ParseMappings ==
    /\ pc = "mappings"
    /\ mresult' = parse_mappings(mapping)
    /\ pc' = "mapped"
    /\ UNCHANGED <<mapping, fileVars, lineVars>>

MapNext == ParseMappings

MapSpec == MapInit /\ [][MapNext]_vars

(***************************************************************************)
(* Properties                                                              *)
(***************************************************************************)
MISMATCH == "replies are not the same size as labels"

\* Answers::parse has come to an end: a table, an error value, or an abort
Ended == pc \in {"ready", "done", "panicked"}

RECURSIVE Concat(_)
Concat(ss) == IF ss = <<>> THEN <<>> ELSE Head(ss) \o Concat(Tail(ss))

QuoteCount(s) == Cardinality({i \in 1 .. Len(s) : s[i] = QUOTE})

\* position i of s is read inside quoted text: an odd number of quotes precede it
InsideQuotes(s, i) == QuoteCount(SubSeq(s, 1, i - 1)) % 2 = 1

\* C1: a built table has as many fields in every reply as it has labels, and
\* when some data line's field count differs from the label count Answers::parse
\* returns the field-count-mismatch error.
C1_FieldCountOrError ==
    Ended =>
      /\ result.kind = "Ok" =>
           \A r \in 1 .. Len(result.replies) :
               Len(result.replies[r]) = Len(result.labels)
      /\ (\E i \in 2 .. Len(lines) :
              LET rec == parse_line(lines[i])
              IN rec.kind = "ok" /\ Len(rec.line) # Len(labels))
           => result = Err(MISMATCH)

\* C1 on the runs where no line aborts the parser: the claim as stated
C1_WhenNoLineAborts ==
    (Ended /\ pc # "panicked") =>
      /\ result.kind = "Ok" =>
           \A r \in 1 .. Len(result.replies) :
               Len(result.replies[r]) = Len(result.labels)
      /\ (\E i \in 2 .. Len(lines) :
              Len(parse_line(lines[i]).line) # Len(labels))
           <=> result = Err(MISMATCH)

\* C2: parse_line returns a Record for every line, never aborting on the
\* expect after the synthesized trailing comma.
C2_NeverAborts == pc # "scan" => pc = "returned" /\ line # <<>>

\* C3: Answers::parse on the empty string fails with "first line missing".
C3_EmptyInputFails ==
    (Ended /\ file = <<>>) => result = Err("first line missing")

\* C4: labels holds one entry per Field of the header record, in order, each
\* the Field's first choice (the empty string for a Field without choices).
C4_LabelPerHeaderField ==
    pc \in {"replies", "ready", "done"} =>
      LET header == parse_line(lines[1]).line
      IN /\ Len(labels) = Len(header)
         /\ \A i \in 1 .. Len(header) :
                labels[i] = IF header[i] = <<>> THEN <<>> ELSE header[i][1]

\* C5: the lines split_lines returns, concatenated in order, are the input.
C5_SplitRoundTrip == pc # "parse" => Concat(lines) = file

\* C5 witness: a file split at two newlines, with a third inside quotes kept
C5_Witness ==
    /\ pc = "header"
    /\ Len(lines) = 3
    /\ \E i \in 1 .. Len(file) : file[i] = NL /\ InsideQuotes(file, i)

\* sub occurs in s as a run of consecutive characters
IsSubstring(sub, s) ==
    \E i \in 0 .. Len(s) : \E j \in i .. Len(s) : SubSeq(s, i + 1, j) = sub

\* the labels of the built table (1-based) that the last query matches
Matching ==
    {i \in 1 .. Len(result.labels) :
        IF query.val.exact THEN result.labels[i] = query.val.name
        ELSE IsSubstring(query.val.name, result.labels[i])}

\* every choice of field i over all replies, reply order then choice order
ColumnChoices(i) ==
    Concat([r \in 1 .. Len(result.replies) |-> result.replies[r][i]])

Asked == pc = "ready" /\ query.some

\* C6: question and question_exact pick the first matching label, in label
\* order, and return it followed by every choice of that label's field over
\* all replies, in reply order and then choice order.
C6_FirstMatchThenChoices ==
    (Asked /\ Matching # {}) =>
      \E i \in Matching :
          /\ \A j \in Matching : i <= j
          /\ out = Some(<<result.labels[i]>> \o ColumnChoices(i))

\* C6 witness: the match is the second label, and a reply holds two choices
\* for it
C6_Witness ==
    /\ Asked /\ out.some
    /\ 1 \notin Matching /\ 2 \in Matching
    /\ \E r \in 1 .. Len(result.replies) : Len(result.replies[r][2]) = 2

\* C7: question and question_exact return None exactly when no label matches
\* and a present result whenever one does; they never abort.
C7_AbsentIffNoMatch ==
    Asked =>
      /\ out = None <=> Matching = {}
      /\ out.some <=> Matching # {}

\* C7 witness: a table of two labels and a reply, asked for a name none has
C7_Witness ==
    /\ Asked /\ out = None
    /\ Len(result.labels) = 2 /\ Len(result.replies) = 1
    /\ query.val.name # <<>>

\* the characters parse_line has handed to State::update so far
Consumed ==
    IF pc = "scan" THEN SubSeq(input, 1, pos - 1) ELSE Append(input, COMMA)

\* C8: after the State has consumed any characters from its initial state,
\* text is true exactly when an odd number of them were quotes.
C8_QuoteParity == state.text <=> QuoteCount(Consumed) % 2 = 1

\* C8 witness: three quotes consumed, the flag set, a fourth still to come
C8_Witness ==
    /\ pc = "scan" /\ state.text
    /\ QuoteCount(Consumed) = 3 /\ QuoteCount(input) = 4

\* a cell: no ';', and no ',' outside quoted text
IsCell(s) ==
    \A i \in 1 .. Len(s) :
        s[i] # SEMI /\ (s[i] = COMMA => InsideQuotes(s, i))

\* the characters of s inside quoted text, the quotes themselves left out
RECURSIVE QuotedFrom(_, _)
QuotedFrom(s, i) ==
    IF i > Len(s) THEN <<>>
    ELSE (IF s[i] # QUOTE /\ InsideQuotes(s, i) THEN <<s[i]>> ELSE <<>>)
         \o QuotedFrom(s, i + 1)

QuotedText(s) == QuotedFrom(s, 1)

\* C9: parsing a cell without ';' yields one Field of exactly one choice, the
\* cell's quoted text with the quotes removed.
C9_CellSingleChoice ==
    (pc # "scan" /\ IsCell(input)) =>
      pc = "returned" /\ line = <<<<QuotedText(input)>>>>

\* C9 on the cells whose quotes are balanced
C9_WhenQuotesBalanced ==
    (pc # "scan" /\ IsCell(input) /\ QuoteCount(input) % 2 = 0) =>
      pc = "returned" /\ line = <<<<QuotedText(input)>>>>

\* the mapping string after its first character, and that character
Remainder == Tail(mapping)
Separator == mapping[1]

SepPositions == {i \in 1 .. Len(Remainder) : Remainder[i] = Separator}
NPieces == Cardinality(SepPositions) + 1

\* where the k-th separator of the remainder is; 0 and Len + 1 close the ends
SepAt(k) ==
    IF k = 0 THEN 0
    ELSE IF k = NPieces THEN Len(Remainder) + 1
    ELSE CHOOSE p \in SepPositions :
             Cardinality({q \in SepPositions : q <= p}) = k

\* the k-th piece of the remainder: what lies between two separators
Piece(k) == SubSeq(Remainder, SepAt(k - 1) + 1, SepAt(k) - 1)

DigitChars == <<"0", "1", "2", "3", "4", "5", "6", "7", "8", "9">>
DigitValue(c) == CHOOSE n \in 0 .. 9 : DigitChars[n + 1] = c

IsNegative(p) == p # <<>> /\ p[1] = "-"
Unsigned(p) == IF p # <<>> /\ p[1] \in {"+", "-"} THEN Tail(p) ELSE p

\* s without its leading zeros
Significant(s) ==
    LET nz == {i \in 1 .. Len(s) : s[i] # "0"}
    IN IF nz = {} THEN <<>>
       ELSE SubSeq(s, CHOOSE i \in nz : \A j \in nz : i <= j, Len(s))

\* a <= b for digit strings of one length
DigitsLeq(a, b) ==
    \/ a = b
    \/ \E i \in 1 .. Len(a) :
           /\ DigitValue(a[i]) < DigitValue(b[i])
           /\ \A j \in 1 .. (i - 1) : a[j] = b[j]

MaxDigits == <<"2", "1", "4", "7", "4", "8", "3", "6", "4", "7">>
MinDigits == <<"2", "1", "4", "7", "4", "8", "3", "6", "4", "8">>

\* p is the decimal numeral of a 32-bit integer: an optional sign, one digit
\* or more, the number within i32::MIN .. i32::MAX
ValidI32(p) ==
    LET ds == Unsigned(p)
        sig == Significant(ds)
    IN /\ ds # <<>>
       /\ \A i \in 1 .. Len(ds) : \E n \in 1 .. 10 : DigitChars[n] = ds[i]
       /\ \/ Len(sig) < Len(MaxDigits)
          \/ /\ Len(sig) = Len(MaxDigits)
             /\ DigitsLeq(sig, IF IsNegative(p) THEN MinDigits ELSE MaxDigits)

RECURSIVE Pow10(_)
Pow10(k) == IF k = 0 THEN 1 ELSE 10 * Pow10(k - 1)

\* the number a valid numeral stands for, summed digit by digit with its sign
RECURSIVE SignedSum(_, _, _)
SignedSum(sig, i, sign) ==
    IF i > Len(sig) THEN 0
    ELSE sign * DigitValue(sig[i]) * Pow10(Len(sig) - i)
         + SignedSum(sig, i + 1, sign)

ValueOf(p) ==
    SignedSum(Significant(Unsigned(p)), 1, IF IsNegative(p) THEN -1 ELSE 1)

\* the keys are the odd pieces; the last of equal keys is the one that counts
KeyPieces == {k \in 1 .. NPieces : k % 2 = 1}
LastKeys == {k \in KeyPieces : \A j \in KeyPieces : j > k => Piece(j) # Piece(k)}

WellFormed ==
    /\ mapping # <<>>
    /\ NPieces % 2 = 0
    /\ \A k \in KeyPieces : ValidI32(Piece(k + 1))

\* C10: parse_mappings splits what follows the first character on that
\* character and reads the pieces as key, value pairs into the map; an empty
\* string, a key without a value or a value that is no 32-bit integer gives
\* an error value and no map.
C10_MappingsOrError ==
    pc = "mapped" =>
      IF WellFormed
      THEN mresult = [kind |-> "Ok",
                      map |-> {<<Piece(k), ValueOf(Piece(k + 1))>> : k \in LastKeys}]
      ELSE mresult.kind = "Err" /\ DOMAIN mresult = {"kind", "msg"}

\* C10 witness: four pieces read into a map of two keys
C10_Witness ==
    /\ pc = "mapped" /\ mresult.kind = "Ok"
    /\ NPieces = 4
    /\ Cardinality(mresult.map) = 2

\* the quotes of s are balanced: s ends outside quoted text
Balanced(s) == QuoteCount(s) % 2 = 0

\* the characters of s read inside quoted text that are neither '"' nor ';'
RECURSIVE ContentFrom(_, _)
ContentFrom(s, i) ==
    IF i > Len(s) THEN <<>>
    ELSE (IF InsideQuotes(s, i) /\ s[i] \notin {QUOTE, SEMI}
          THEN <<s[i]>> ELSE <<>>)
         \o ContentFrom(s, i + 1)

\* every choice parse_line holds: in the Record built so far and in options
ChoicesHeld == Concat(line) \o state.options

\* C11: for a line with balanced quotes parse_line returns a Record, and its
\* choices, concatenated in order, are the characters read inside quoted text
\* that are neither '"' nor ';'; no '"' and no ';' is ever in a choice.
C11_OnlyQuotedTextIsContent ==
    /\ (pc # "scan" /\ Balanced(input)) =>
          pc = "returned" /\ Concat(Concat(line)) = ContentFrom(input, 1)
    /\ \A k \in 1 .. Len(ChoicesHeld) :
           \A n \in 1 .. Len(ChoicesHeld[k]) :
               ChoicesHeld[k][n] \notin {QUOTE, SEMI}

\* C11 witness: a character outside the quotes dropped, one inside them kept,
\* and a ';' inside them
C11_Witness ==
    /\ pc = "returned"
    /\ \E i, j, k \in 1 .. Len(input) :
           /\ input[i] = "a" /\ ~InsideQuotes(input, i)
           /\ input[j] = "a" /\ InsideQuotes(input, j)
           /\ input[k] = SEMI /\ InsideQuotes(input, k)

\* the positions of s that hold character c outside, or inside, quoted text
Outside(s, c) == {i \in 1 .. Len(s) : s[i] = c /\ ~InsideQuotes(s, i)}
Inside(s, c) == {i \in 1 .. Len(s) : s[i] = c /\ InsideQuotes(s, i)}

Occurrences(s, c) == Cardinality({i \in 1 .. Len(s) : s[i] = c})

\* C12: for a line that ends outside quoted text the Record has one field
\* more than the line has ',' outside quotes; a ',' inside quotes is content.
C12_FieldPerOuterComma ==
    (pc # "scan" /\ Balanced(input)) =>
      /\ pc = "returned"
      /\ Len(line) = 1 + Cardinality(Outside(input, COMMA))
      /\ Occurrences(Concat(Concat(line)), COMMA)
           = Cardinality(Inside(input, COMMA))

\* C12 witness: a line with a ',' inside quotes and two outside
C12_Witness ==
    /\ pc = "returned"
    /\ Cardinality(Inside(input, COMMA)) = 1
    /\ Cardinality(Outside(input, COMMA)) = 2

\* where the k-th ',' outside quotes is; 0 and Len + 1 close the ends
CellEnd(s, k) ==
    IF k = 0 THEN 0
    ELSE IF k = Cardinality(Outside(s, COMMA)) + 1 THEN Len(s) + 1
    ELSE CHOOSE p \in Outside(s, COMMA) :
             Cardinality({q \in Outside(s, COMMA) : q <= p}) = k

\* the k-th cell of line s: what lies between two ',' outside quotes
Cell(s, k) == SubSeq(s, CellEnd(s, k - 1) + 1, CellEnd(s, k) - 1)

\* C13: every Field parse_line returns has one choice more than its cell has
\* ';', inside or outside quoted text, so no Field is empty.
C13_ChoicePerSemicolon ==
    pc = "returned" =>
      \A k \in 1 .. Len(line) :
          /\ Len(line[k]) = 1 + Occurrences(Cell(input, k), SEMI)
          /\ line[k] # <<>>

\* C13 witness: two fields, the first of three choices, one of its ';' inside
\* quotes and one outside
C13_Witness ==
    /\ pc = "returned"
    /\ Len(line) = 2 /\ Len(line[1]) = 3
    /\ Inside(input, SEMI) # {} /\ Outside(input, SEMI) # {}

\* split_lines has returned
Split == pc # "parse"

\* C14: split_lines returns one line more than the file has newlines outside
\* quotes (one empty line for the empty file); the first line has no newline
\* outside quotes, every later line exactly one, its first character.
C14_LinePerOuterNewline ==
    Split =>
      /\ Len(lines) = 1 + Cardinality(Outside(file, NL))
      /\ file = <<>> => lines = << <<>> >>
      /\ Outside(lines[1], NL) = {}
      /\ \A i \in 2 .. Len(lines) : Outside(lines[i], NL) = {1}

\* C14 witness: two lines, the second with a newline of its own inside quotes
C14_Witness ==
    /\ pc = "header"
    /\ Len(lines) = 2
    /\ Inside(lines[2], NL) # {}

\* C15: a built table has one reply per line after the first, in file order,
\* each the Record parse_line gives for that line alone from a fresh State.
C15_RepliesInFileOrder ==
    result.kind = "Ok" =>
      /\ Len(result.replies) = Len(lines) - 1
      /\ \A i \in 1 .. Len(result.replies) :
             result.replies[i] = line_loop(State_new, <<>>, lines[i + 1], 1).line

\* C15 witness: a built table of two replies that differ
C15_Witness ==
    /\ result.kind = "Ok"
    /\ Len(result.replies) = 2
    /\ result.replies[1] # result.replies[2]

\* the file ends in a newline that is outside quoted text
EndsInOuterNewline == file # <<>> /\ Len(file) \in Outside(file, NL)

\* C16: when the file ends in a newline outside quotes the last line is that
\* newline alone, a Record of one field with one empty choice, and
\* Answers::parse returns the field-count-mismatch error unless the header
\* gives exactly one label.
C16_TrailingNewlineMismatch ==
    (Ended /\ EndsInOuterNewline) =>
      /\ lines[Len(lines)] = <<NL>>
      /\ Len(lines) >= 2
      /\ parse_line(lines[Len(lines)]).kind = "ok"
      /\ parse_line(lines[Len(lines)]).line = << << <<>> >> >>
      /\ Len(labels) # 1 => result = Err(MISMATCH)

\* C16 witness: a header of two labels, a reply of two fields, then the
\* trailing newline
C16_Witness ==
    /\ Ended /\ EndsInOuterNewline
    /\ Len(labels) = 2 /\ Len(replies) = 2 /\ Len(replies[1]) = 2

\* C17: every line but the last has an even number of quotes, so parse_line
\* ends it with text false; only the last line can end inside quoted text.
C17_OnlyLastLineUnbalanced ==
    Split =>
      \A i \in 1 .. (Len(lines) - 1) :
          /\ QuoteCount(lines[i]) % 2 = 0
          /\ parse_line(lines[i]).kind = "ok"
          /\ ~parse_line(lines[i]).state.text

\* C17 witness: a first line with a quoted newline, a last line ending inside
\* quoted text
C17_Witness ==
    /\ pc = "header"
    /\ Len(lines) = 2
    /\ Inside(lines[1], NL) # {}
    /\ ~Balanced(lines[2])

\* C18: on a built table question and question_exact never index a reply out
\* of bounds: a matching label's index is within every reply.
C18_IndexWithinReplies ==
    Asked =>
      /\ "panic" \notin DOMAIN out
      /\ \A i \in Matching :
             \A r \in 1 .. Len(result.replies) : i <= Len(result.replies[r])

\* C18 witness: the only match is the last of two labels, with a reply to
\* index
C18_Witness ==
    /\ Asked /\ out.some
    /\ Len(result.labels) = 2 /\ Matching = {2}
    /\ Len(result.replies) >= 1

====
